---- MODULE Spec2Model ----
(***************************************************************************)
(* Model of tinyfacts: the word-forms builder (WordFormsExtractor), the    *)
(* WordFormsDictionary loaded from word-forms.json, and the tokenizer and  *)
(* classifiers built on it (split_words, check_words, check_simple_words). *)
(*                                                                         *)
(* A Python str is a sequence of characters; a Python dict is a sequence   *)
(* of <<key, value>> pairs in insertion order; an Optional value is <<>>   *)
(* for None and <<v>> for a value v.                                       *)
(***************************************************************************)
EXTENDS Integers, Sequences, FiniteSets, TLC

\* ------------------------------------------------------------------------
\* Bounds of the model
\* ------------------------------------------------------------------------
MaxVocab == 2        \* lines of thing-explainer-1000.txt that are read
MaxCandidates == 2   \* candidates the inflection collaborator lists per tag
MaxFileForms == 2    \* surface strings of a word-forms.json that was not built here
MaxTextLen == 4      \* characters of a text given to the tokenizer
MaxTokens == 3       \* tokens of a list given to check_words directly
MaxLines == 3        \* lines of the questions file of ask_questions
MaxFiles == 2        \* files of one sub-folder that FolderGenStats scans
MaxRequests == 2     \* requests one Query is asked for
MaxRadius == 2       \* context_length values 0..MaxRadius

\* ------------------------------------------------------------------------
\* Strings
\* ------------------------------------------------------------------------
EMPTY == <<>>
BLANK == <<" ">>
BE == <<"b", "e">>
SEE == <<"s", "e", "e">>
SAW == <<"s", "a", "w">>
kBase == <<"b", "a", "s", "e">>
NNS == <<"N", "N", "S">>
VBZ == <<"V", "B", "Z">>
VBD == <<"V", "B", "D">>
VBG == <<"V", "B", "G">>
VBN == <<"V", "B", "N">>
JJR == <<"J", "J", "R">>
JJS == <<"J", "J", "S">>
RBR == <<"R", "B", "R">>
RBS == <<"R", "B", "S">>
ANN == <<"A", "N", "N">>
NN == <<"N", "N">>
XX == <<"X", "X">>
UNK == <<"<", "U", "N", "K", ">">>

None == <<>>
Some(v) == <<v>>

\* All sequences over S of length lo..hi
SeqsOf(S, lo, hi) == UNION {[1..n -> S] : n \in lo..hi}

\* ------------------------------------------------------------------------
\* Python dict: insertion-ordered mapping
\* ------------------------------------------------------------------------
Keys(d) == {d[k][1] : k \in DOMAIN d}
Has(d, key) == \E k \in DOMAIN d : d[k][1] = key
Get(d, key) == d[CHOOSE k \in DOMAIN d : d[k][1] = key][2]
Put(d, key, val) ==
    IF Has(d, key)
    THEN [k \in DOMAIN d |-> IF d[k][1] = key THEN <<key, val>> ELSE d[k]]
    ELSE Append(d, <<key, val>>)
Values(d) == [k \in DOMAIN d |-> d[k][2]]
IsDict(d) == \A j, k \in DOMAIN d : d[j][1] = d[k][1] => j = k

\* ------------------------------------------------------------------------
\* JSON documents: a file is the sequence of its tokens (white space between
\* tokens, such as the indentation, carries nothing)
\* ------------------------------------------------------------------------
Tok(t, v) == [t |-> t, v |-> v]
LBRACE == Tok("{", <<>>)
RBRACE == Tok("}", <<>>)
COLON == Tok(":", <<>>)
COMMA == Tok(",", <<>>)
JString(str) == Tok("string", str)

\* json.dump of a str (depth 0) or of a dict nested depth levels deep, its
\* members in the order of the dict
RECURSIVE json_dump(_, _)
RECURSIVE DumpMembers(_, _, _)
DumpMembers(d, k, depth) ==
    IF k > Len(d) THEN <<>>
    ELSE (IF k > 1 THEN <<COMMA>> ELSE <<>>)
         \o <<JString(d[k][1]), COLON>> \o json_dump(d[k][2], depth - 1)
         \o DumpMembers(d, k + 1, depth)
json_dump(obj, depth) ==
    IF depth = 0 THEN <<JString(obj)>>
    ELSE <<LBRACE>> \o DumpMembers(obj, 1, depth) \o <<RBRACE>>

\* json.loads: the value that starts at token pos, and the position after it;
\* a key that comes again keeps its place and takes the later value
RECURSIVE ParseValue(_, _)
RECURSIVE ParseMembers(_, _, _)
ParseMembers(toks, pos, acc) ==
    IF toks[pos].t = "}" THEN [val |-> acc, pos |-> pos + 1]
    ELSE LET member == ParseValue(toks, pos + 2)
             acc1 == Put(acc, toks[pos].v, member.val)
         IN IF toks[member.pos].t = ","
            THEN ParseMembers(toks, member.pos + 1, acc1)
            ELSE [val |-> acc1, pos |-> member.pos + 1]
ParseValue(toks, pos) ==
    IF toks[pos].t = "string" THEN [val |-> toks[pos].v, pos |-> pos + 1]
    ELSE ParseMembers(toks, pos + 1, <<>>)
json_loads(toks) == ParseValue(toks, 1).val

\* ------------------------------------------------------------------------
\* word_forms.py: tag sets
\* ------------------------------------------------------------------------
SUPPORTED_INFLECTIONS == {NNS, VBZ, VBD, VBG, VBN, JJR, JJS, RBR, RBS}
SUPPORTED_TAGS == SUPPORTED_INFLECTIONS \cup {ANN}

VARIABLES
    file,           \* word-forms.json: None when missing, else Some(tokens)
    action_nouns,   \* _ACTION_NOUNS, read from action-nouns.json at import
    raw_words,      \* lines of the vocabulary file read by the builder
    bpc,            \* builder script: off (not run), idle, be, loop, done
    i,              \* lines of raw_words already fed to the extractor
    words,          \* WordFormsExtractor.words
    all_forms,      \* WordFormsExtractor._all_forms
    dpc,            \* dictionary instance: none, ready, error
    word_forms,     \* WordFormsDictionary._word_forms
    allowed_words,  \* WordFormsDictionary._allowed_words
    word_map,       \* WordFormsDictionary._word_map
    ret,            \* the last call and what it returned
    editor,         \* text editor: off (not run), package, script
    title,          \* value of the Input "#title"
    text_area,      \* SimpleTextArea.text
    disk,           \* output folder of the editor: file name -> content
    screen,         \* ConfirmSave on top: None, or Some(output_file)
    apc,            \* ask_questions.main: off (not run), idle, loop, done
    questions,      \* the input file: None when missing, else Some(lines)
    answers,        \* the idx for which answer_<idx>.txt is in the output folder
    existing_answers, \* the set main scanned before its loop
    idx,            \* 0-based number of the line the loop is at
    invoked,        \* the idx the agent subprocess was run for, in this run
    failures,       \* the idx whose subprocess ended with CalledProcessError
    prev_run,       \* the run before this one: None, or Some of what it invoked
    query_args,     \* Query._query_args: None before __init__, else Some(record)
    heap,           \* the message lists that exist, by address
    requests        \* the requests returned so far, in order of the calls

vars == <<file, action_nouns, raw_words, bpc, i, words, all_forms,
          dpc, word_forms, allowed_words, word_map, ret,
          editor, title, text_area, disk, screen,
          apc, questions, answers, existing_answers, idx, invoked, failures,
          prev_run, query_args, heap, requests>>
editor_vars == <<editor, title, text_area, disk, screen>>
ask_vars == <<apc, questions, answers, existing_answers, idx, invoked, failures,
              prev_run>>
query_vars == <<query_args, heap, requests>>
\* State of the tools around the core
app_vars == <<editor_vars, ask_vars, query_vars>>
builder_vars == <<raw_words, bpc, i, words, all_forms>>
dict_vars == <<dpc, word_forms, allowed_words, word_map>>

NoCall == [op |-> "none"]

\* ------------------------------------------------------------------------
\* Inflection Table Builder
\* ------------------------------------------------------------------------
\* What the vocabulary file can hold, line by line
Lines == {BE, SEE, SAW, BLANK}
\* Surface strings the collaborators can answer with
Forms == {SEE, SAW}
\* Results of getAllInflections: tag -> non-empty candidate list, for a
\* supported tag (VBD) and one that is not supported (NN), in either order
Inflections ==
    {d \in SeqsOf(({VBD} \X SeqsOf(Forms, 1, MaxCandidates)) \cup {<<NN, <<SAW>>>>}, 0, 2) :
        IsDict(d)}
\* Contents of action-nouns.json: word -> action noun, possibly ""
ActionNounTables == SeqsOf({SEE} \X {EMPTY, SEE, SAW}, 0, 1)

\* str.strip() leaves nothing
IsBlank(word) == \A k \in DOMAIN word : word[k] = " "

\* Mutant: the last candidate of a tag is taken, not the first
RECURSIVE AddInflections_last(_, _, _, _)
AddInflections_last(word_forms0, word, inflections, k) ==
    IF k > Len(inflections) THEN word_forms0
    ELSE LET tag == inflections[k][1]
             forms == inflections[k][2]
             next == IF tag \in SUPPORTED_INFLECTIONS /\ forms[Len(forms)] # word
                     THEN Put(word_forms0, tag, forms[Len(forms)])
                     ELSE word_forms0
         IN AddInflections_last(next, word, inflections, k + 1)

RECURSIVE AddInflections(_, _, _, _)
AddInflections(word_forms0, word, inflections, k) ==
    IF k > Len(inflections) THEN word_forms0
    ELSE LET tag == inflections[k][1]
             forms == inflections[k][2]
             next == IF tag \in SUPPORTED_INFLECTIONS /\ forms[1] # word
                     THEN Put(word_forms0, tag, forms[1])
                     ELSE word_forms0
         IN AddInflections(next, word, inflections, k + 1)

\* Mutant: a word of the action-noun table gets ANN whatever the value
find_word_forms_any(word, inflections, nouns) ==
    LET inflected == AddInflections(<<<<kBase, word>>>>, word, inflections, 1)
    IN IF Has(nouns, word)
       THEN Put(inflected, ANN, Get(nouns, word))
       ELSE inflected

find_word_forms(word, inflections, nouns) ==
    LET inflected == AddInflections(<<<<kBase, word>>>>, word, inflections, 1)
    IN IF Has(nouns, word) /\ Get(nouns, word) # EMPTY
       THEN Put(inflected, ANN, Get(nouns, word))
       ELSE inflected

InSeq(x, s) == \E k \in DOMAIN s : s[k] = x

\* Mutant: no test against the forms seen so far
WordFormsExtractor_call_nodedup(word) ==
    IF IsBlank(word)
    THEN UNCHANGED <<words, all_forms>>
    ELSE \E inflections \in Inflections :
            LET entry == find_word_forms(word, inflections, action_nouns)
            IN /\ all_forms' = all_forms \o Values(entry)
               /\ words' = Put(words, word, entry)

\* Mutant: the test is against the base words seen so far
WordFormsExtractor_call_bases(word) ==
    IF IsBlank(word) \/ Has(words, word)
    THEN UNCHANGED <<words, all_forms>>
    ELSE \E inflections \in Inflections :
            LET entry == find_word_forms(word, inflections, action_nouns)
            IN /\ all_forms' = all_forms \o Values(entry)
               /\ words' = Put(words, word, entry)

\* WordFormsExtractor.__call__(word)
WordFormsExtractor_call(word) ==
    IF IsBlank(word) \/ InSeq(word, all_forms)
    THEN UNCHANGED <<words, all_forms>>
    ELSE \E inflections \in Inflections :
            LET entry == find_word_forms(word, inflections, action_nouns)
            IN /\ all_forms' = all_forms \o Values(entry)
               /\ words' = Put(words, word, entry)

\* __main__: read the vocabulary, create the extractor
ReadWordList ==
    /\ bpc = "idle"
    /\ raw_words' \in SeqsOf(Lines, 0, MaxVocab)
    /\ bpc' = "be"
    /\ UNCHANGED <<app_vars, file, action_nouns, i, words, all_forms, dict_vars, ret>>

\* Mutant: the special case is left out, the loop starts at once
CallBe_skip ==
    /\ bpc = "be"
    /\ bpc' = "loop"
    /\ UNCHANGED <<app_vars, file, action_nouns, raw_words, i, words, all_forms, dict_vars, ret>>

\* __main__: words_collection('be')
CallBe ==
    /\ bpc = "be"
    /\ WordFormsExtractor_call(BE)
    /\ bpc' = "loop"
    /\ UNCHANGED <<app_vars, file, action_nouns, raw_words, i, dict_vars, ret>>

\* __main__: one turn of `for word in raw_words`
CallWord ==
    /\ bpc = "loop" /\ i < Len(raw_words)
    /\ WordFormsExtractor_call(raw_words[i + 1])
    /\ i' = i + 1
    /\ UNCHANGED <<app_vars, file, action_nouns, raw_words, bpc, dict_vars, ret>>

\* Mutant: the unused words_with_variants of __main__ is written instead
Dump_variants ==
    /\ bpc = "loop" /\ i = Len(raw_words)
    /\ file' = Some(json_dump(<<>>, 2))
    /\ bpc' = "done"
    /\ UNCHANGED <<app_vars, action_nouns, raw_words, i, words, all_forms, dict_vars, ret>>

\* __main__: json.dump(words_collection.words, f)
Dump ==
    /\ bpc = "loop" /\ i = Len(raw_words)
    /\ file' = Some(json_dump(words, 2))
    /\ bpc' = "done"
    /\ UNCHANGED <<app_vars, action_nouns, raw_words, i, words, all_forms, dict_vars, ret>>

\* ------------------------------------------------------------------------
\* Word Forms Dictionary
\* ------------------------------------------------------------------------
\* TaggedWord.__post_init__ accepts the tag
TaggedWord_ok(tag) == ~(Len(tag) > 0 /\ tag[1] # EMPTY /\ tag[1] \notin SUPPORTED_TAGS)
TaggedWord(base, tag) == [base |-> base, tag |-> tag]

\* (base, tag, form) in the order `for base, forms ... for tag, form` visits them
RECURSIVE Triples(_)
Triples(wf) ==
    IF Len(wf) = 0 THEN <<>>
    ELSE LET base == wf[1][1]
             forms == wf[1][2]
         IN [k \in DOMAIN forms |-> <<base, forms[k][1], forms[k][2]>>]
            \o Triples(Tail(wf))

\* The tag handed to TaggedWord for one key of an entry
TagOf(key) == IF key = kBase THEN None ELSE Some(key)

\* The loop of __init__ runs to its end without a ValueError
LoadOK(wf) == \A k \in DOMAIN Triples(wf) : TaggedWord_ok(TagOf(Triples(wf)[k][2]))

\* Mutant: a surface string that is already mapped keeps its first TaggedWord
RECURSIVE BuildWordMap_first(_, _, _)
BuildWordMap_first(triples, k, m) ==
    IF k > Len(triples) THEN m
    ELSE LET t == triples[k]
         IN BuildWordMap_first(triples, k + 1,
                IF Has(m, t[3]) THEN m
                ELSE Put(m, t[3], TaggedWord(t[1], TagOf(t[2]))))

RECURSIVE BuildWordMap(_, _, _)
BuildWordMap(triples, k, m) ==
    IF k > Len(triples) THEN m
    ELSE LET t == triples[k]
         IN BuildWordMap(triples, k + 1, Put(m, t[3], TaggedWord(t[1], TagOf(t[2]))))

\* Mutant: only the base words are allowed, inflected forms are left out
AllowedWordsOf_keys(wf) == Keys(wf)

AllowedWordsOf(wf) == {Triples(wf)[k][3] : k \in DOMAIN Triples(wf)}

\* WordFormsDictionary.__init__
Load ==
    /\ dpc = "none" /\ ret = NoCall
    /\ IF Len(file) = 0
       THEN /\ dpc' = "error"
            /\ ret' = [op |-> "load", raised |-> "FileNotFoundError"]
            /\ UNCHANGED <<word_forms, allowed_words, word_map>>
       ELSE IF ~LoadOK(json_loads(file[1]))
       THEN /\ dpc' = "error"
            /\ ret' = [op |-> "load", raised |-> "ValueError"]
            /\ UNCHANGED <<word_forms, allowed_words, word_map>>
       ELSE /\ dpc' = "ready"
            /\ word_forms' = json_loads(file[1])
            /\ allowed_words' = AllowedWordsOf(json_loads(file[1]))
            /\ word_map' = BuildWordMap(Triples(json_loads(file[1])), 1, <<>>)
            /\ ret' = [op |-> "load", raised |-> "no"]
    /\ UNCHANGED <<app_vars, file, action_nouns, builder_vars>>

ZOG == <<"z", "o", "g">>
\* Strings the dictionary is asked about
QueryWords == allowed_words \cup Keys(word_forms) \cup {ZOG}

\* Mutant: only the base words of the mapping are looked up, as in get_tokens
get_tagged_word_keys(word) ==
    IF Has(word_forms, word) /\ Has(word_map, word)
    THEN Some(Get(word_map, word)) ELSE None

get_tagged_word(word) == IF Has(word_map, word) THEN Some(Get(word_map, word)) ELSE None

\* f"<{tword.tag}>"
Marker(tag) == <<"<">> \o tag \o <<">">>

\* Some(tokens), or None when self._word_map[word] raises KeyError
get_tokens(word) ==
    IF ~Has(word_forms, word) THEN Some(<<UNK>>)
    ELSE IF ~Has(word_map, word) THEN None
    ELSE LET tword == Get(word_map, word)
         IN IF Len(tword.tag) > 0 /\ tword.tag[1] # EMPTY
            THEN Some(<<Marker(tword.tag[1]), tword.base>>)
            ELSE Some(<<tword.base>>)

GetTaggedWord ==
    /\ dpc = "ready" /\ ret = NoCall
    /\ \E word \in QueryWords :
          ret' = [op |-> "get_tagged_word", word |-> word, val |-> get_tagged_word(word)]
    /\ UNCHANGED <<app_vars, file, action_nouns, builder_vars, dict_vars>>

\* The allowed_words property
AllowedWords ==
    /\ dpc = "ready" /\ ret = NoCall
    /\ ret' = [op |-> "allowed_words", val |-> allowed_words]
    /\ UNCHANGED <<app_vars, file, action_nouns, builder_vars, dict_vars>>

\* Mutant: an unknown word is remembered in the index
GetTokens_cache ==
    /\ dpc = "ready" /\ ret = NoCall
    /\ \E word \in QueryWords :
          /\ ret' = [op |-> "get_tokens", word |-> word, val |-> get_tokens(word)]
          /\ word_map' = IF Has(word_map, word) THEN word_map
                         ELSE Put(word_map, word, TaggedWord(UNK, None))
    /\ UNCHANGED <<app_vars, file, action_nouns, builder_vars, dpc, word_forms, allowed_words>>

GetTokens ==
    /\ dpc = "ready" /\ ret = NoCall
    /\ \E word \in QueryWords :
          ret' = [op |-> "get_tokens", word |-> word, val |-> get_tokens(word)]
    /\ UNCHANGED <<app_vars, file, action_nouns, builder_vars, dict_vars>>

\* Tags a caller may hand to TaggedWord: none, the supported ones, and strings
\* that are no tag
TagInputs == {None} \cup {Some(t) : t \in SUPPORTED_TAGS \cup {EMPTY, kBase, XX}}

\* TaggedWord(base, tag) constructed by a caller; __post_init__ may raise
NewTaggedWord ==
    /\ ret = NoCall
    /\ \E base \in {BE, ZOG}, tag \in TagInputs :
          ret' = IF TaggedWord_ok(tag)
                 THEN [op |-> "TaggedWord", base |-> base, tag |-> tag,
                       raised |-> "no", val |-> TaggedWord(base, tag)]
                 ELSE [op |-> "TaggedWord", base |-> base, tag |-> tag,
                       raised |-> "ValueError", val |-> None]
    /\ UNCHANGED <<app_vars, file, action_nouns, builder_vars, dict_vars>>

\* The caller takes the returned value (or the exception) and goes on
Consume ==
    /\ ret # NoCall
    /\ ret' = NoCall
    /\ UNCHANGED <<app_vars, file, action_nouns, builder_vars, dict_vars>>

\* ------------------------------------------------------------------------
\* Builder and dictionary together
\* ------------------------------------------------------------------------
\* Keys and surface strings of a word-forms.json that was put there by hand
FileTags == {kBase, VBD, EMPTY, XX}
FileKeys == {BE, SEE}
FileEntries ==
    {e \in SeqsOf(FileTags \X FileKeys, 0, MaxFileForms) : IsDict(e)}
PersistedFiles ==
    {f \in SeqsOf(FileKeys \X FileEntries, 0, Cardinality(FileKeys)) :
        IsDict(f) /\ Len(Triples(f)) <= MaxFileForms}

\* The tools around the core are not run
EditorOff ==
    editor = "off" /\ title = <<>> /\ text_area = <<>> /\ disk = <<>> /\ screen = <<>>
AskOff ==
    /\ apc = "off" /\ questions = <<>> /\ answers = {} /\ existing_answers = {}
    /\ idx = 0 /\ invoked = <<>> /\ failures = {} /\ prev_run = None
QueryOff == query_args = <<>> /\ heap = <<>> /\ requests = <<>>
ToolsOff == EditorOff /\ AskOff /\ QueryOff

InitCommon ==
    /\ raw_words = <<>> /\ i = 0 /\ words = <<>> /\ all_forms = <<>>
    /\ dpc = "none" /\ word_forms = <<>> /\ allowed_words = {} /\ word_map = <<>>
    /\ ret = NoCall
    /\ ToolsOff

Init ==
    /\ InitCommon
    /\ \/ /\ bpc = "idle" /\ file = None
          /\ action_nouns \in ActionNounTables
       \/ /\ bpc = "off" /\ action_nouns = <<>>
          /\ file \in {Some(json_dump(f, 2)) : f \in PersistedFiles}

Next ==
    \/ ReadWordList
    \/ CallBe
    \/ CallWord
    \/ Dump
    \/ Load
    \/ GetTaggedWord
    \/ GetTokens
    \/ Consume

Spec == Init /\ [][Next]_vars

\* ------------------------------------------------------------------------
\* Tokenizer and classifiers
\* ------------------------------------------------------------------------
AsciiLower == <<"a", "b", "c", "d", "e", "f", "g", "h", "i", "j", "k", "l", "m",
                "n", "o", "p", "q", "r", "s", "t", "u", "v", "w", "x", "y", "z">>
AsciiUpper == <<"A", "B", "C", "D", "E", "F", "G", "H", "I", "J", "K", "L", "M",
                "N", "O", "P", "Q", "R", "S", "T", "U", "V", "W", "X", "Y", "Z">>
Range(s) == {s[k] : k \in DOMAIN s}
\* Characters outside ASCII, named by code point: long s, dotless i,
\* capital I with dot above, Kelvin sign, combining dot above
LONG_S == "U+017F"
DOTLESS_I == "U+0131"
CAPITAL_I_DOT == "U+0130"
KELVIN == "U+212A"
COMBINING_DOT == "U+0307"

\* str.lower() of one character
lower_char(c) ==
    IF c \in Range(AsciiUpper)
    THEN <<AsciiLower[CHOOSE k \in DOMAIN AsciiUpper : AsciiUpper[k] = c]>>
    ELSE IF c = CAPITAL_I_DOT THEN <<"i", COMBINING_DOT>>
    ELSE IF c = KELVIN THEN <<"k">>
    ELSE <<c>>

RECURSIVE lower(_)
lower(text) == IF Len(text) = 0 THEN <<>> ELSE lower_char(text[1]) \o lower(Tail(text))

\* One character matches [a-z'] of _WORDS_RE, compiled with re.IGNORECASE on a
\* str pattern: the ASCII letters of both cases, the apostrophe, and the four
\* characters outside ASCII whose case folding is an ASCII letter
WORDS_RE(c) ==
    c \in Range(AsciiLower) \cup Range(AsciiUpper) \cup {"'"}
          \cup {LONG_S, DOTLESS_I, CAPITAL_I_DOT, KELVIN}

\* _WORDS_RE.finditer(s): the matches of [a-z']+ from left to right, each with
\* its 0-based start and its end (exclusive)
RECURSIVE finditer(_, _, _, _)
finditer(s, k, cur, out) ==
    LET flushed == IF Len(cur) = 0 THEN out
                   ELSE Append(out, [word |-> cur, start |-> k - 1 - Len(cur), end |-> k - 1])
    IN IF k > Len(s) THEN flushed
       ELSE IF WORDS_RE(s[k]) THEN finditer(s, k + 1, Append(cur, s[k]), out)
       ELSE finditer(s, k + 1, <<>>, flushed)

find_word_matches(text) == finditer(lower(text), 1, <<>>, <<>>)

split_words(text) ==
    LET m == find_word_matches(text) IN [k \in DOMAIN m |-> m[k].word]

\* The loop of check_words over words[k..], with the tally so far
RECURSIVE Tally(_, _, _, _)
Tally(wordlist, k, allowed, invalid_words) ==
    IF k > Len(wordlist) THEN invalid_words
    ELSE LET word == wordlist[k]
             seen == IF Has(invalid_words, word) THEN Get(invalid_words, word) ELSE 0
         IN Tally(wordlist, k + 1, allowed,
                  IF word \notin allowed
                  THEN Put(invalid_words, word, seen + 1)
                  ELSE invalid_words)

\* Mutant: the loop starts at the second word
check_words_skip(wordlist, allowed) == Tally(wordlist, 2, allowed, <<>>)

\* Mutant: every invalid word is recorded once, occurrences are not counted
check_words_once(wordlist, allowed) ==
    LET t == Tally(wordlist, 1, allowed, <<>>) IN [k \in DOMAIN t |-> <<t[k][1], 1>>]

\* check_words(words) with the allowed words of the dictionary it constructs
check_words(wordlist, allowed) == Tally(wordlist, 1, allowed, <<>>)

\* ' '.join(parts)
RECURSIVE join(_)
join(parts) ==
    IF Len(parts) = 0 THEN <<>>
    ELSE IF Len(parts) = 1 THEN parts[1]
    ELSE parts[1] \o <<" ">> \o join(Tail(parts))

Max(a, b) == IF a > b THEN a ELSE b
Min(a, b) == IF a < b THEN a ELSE b

\* words[start:end] for 0 <= start, 0 <= end <= len(words)
Slice(s, start, end) == SubSeq(s, start + 1, end)

\* The loop of check_simple_words from 0-based index on
RECURSIVE InvalidFrom(_, _, _, _, _)
InvalidFrom(wordlist, index, context_length, allowed, invalid_words) ==
    IF index >= Len(wordlist) THEN invalid_words
    ELSE LET word == wordlist[index + 1]
             start == Max(0, index - context_length)
             end == Min(Len(wordlist), index + context_length + 1)
             context == join(Slice(wordlist, start, end))
         IN InvalidFrom(wordlist, index + 1, context_length, allowed,
                IF word \notin allowed
                THEN Append(invalid_words,
                            [word |-> word, index |-> index, context |-> context])
                ELSE invalid_words)

\* Mutant: the window ends at index + context_length, exclusive
RECURSIVE InvalidFrom_short(_, _, _, _, _)
InvalidFrom_short(wordlist, index, context_length, allowed, invalid_words) ==
    IF index >= Len(wordlist) THEN invalid_words
    ELSE LET word == wordlist[index + 1]
             start == Max(0, index - context_length)
             end == Max(index + 1, Min(Len(wordlist), index + context_length))
             context == join(Slice(wordlist, start, end))
         IN InvalidFrom_short(wordlist, index + 1, context_length, allowed,
                IF word \notin allowed
                THEN Append(invalid_words,
                            [word |-> word, index |-> index, context |-> context])
                ELSE invalid_words)
check_simple_words_short(text, context_length, allowed) ==
    InvalidFrom_short(split_words(text), 0, context_length, allowed, <<>>)

\* Mutant: an invalid word is recorded at its first position only
RECURSIVE InvalidFrom_first(_, _, _, _, _)
InvalidFrom_first(wordlist, index, context_length, allowed, invalid_words) ==
    IF index >= Len(wordlist) THEN invalid_words
    ELSE LET word == wordlist[index + 1]
             start == Max(0, index - context_length)
             end == Min(Len(wordlist), index + context_length + 1)
             context == join(Slice(wordlist, start, end))
         IN InvalidFrom_first(wordlist, index + 1, context_length, allowed,
                IF word \notin allowed
                   /\ \A k \in DOMAIN invalid_words : invalid_words[k].word # word
                THEN Append(invalid_words,
                            [word |-> word, index |-> index, context |-> context])
                ELSE invalid_words)
check_simple_words_first(text, context_length, allowed) ==
    InvalidFrom_first(split_words(text), 0, context_length, allowed, <<>>)

\* Mutant: a radius of 0 is taken as not given and the default 2 is used
check_simple_words_default(text, context_length, allowed) ==
    InvalidFrom(split_words(text), 0,
                IF context_length = 0 THEN 2 ELSE context_length, allowed, <<>>)

check_simple_words(text, context_length, allowed) ==
    InvalidFrom(split_words(text), 0, context_length, allowed, <<>>)

\* Characters of the texts that are tried
TextChars == {"a", "B", "'", "-", LONG_S}
Texts == SeqsOf(TextChars, 0, MaxTextLen)
Radii == 0..MaxRadius
\* Dictionaries the classifiers are tried against
TextFileA == <<<<<<"a">>, <<<<kBase, <<"a">>>>, <<NNS, <<"a", "'", "b">>>>>>>>>>
TextFileB == <<<<<<"a">>, <<<<kBase, <<"a">>>>>>>>,
               <<<<"b">>, <<<<kBase, <<"b">>>>, <<VBD, <<"b", "a">>>>>>>>>>
TextFiles == {TextFileA, TextFileB}
\* Token lists handed to check_words directly
TokenLists == SeqsOf(AllowedWordsOf(json_loads(file[1])) \cup {ZOG, UNK}, 0, MaxTokens)

FileLoads == Len(file) > 0 /\ LoadOK(json_loads(file[1]))

\* Mutant: once a dictionary is loaded, its words are left out of the result
SplitWords_known ==
    /\ ret = NoCall
    /\ \E text \in Texts :
          ret' = [op |-> "split_words", text |-> text,
                  val |-> IF dpc = "ready"
                          THEN SelectSeq(split_words(text),
                                         LAMBDA w : w \notin allowed_words)
                          ELSE split_words(text)]
    /\ UNCHANGED <<app_vars, file, action_nouns, builder_vars, dict_vars>>

SplitWords ==
    /\ ret = NoCall
    /\ \E text \in Texts :
          ret' = [op |-> "split_words", text |-> text, val |-> split_words(text)]
    /\ UNCHANGED <<app_vars, file, action_nouns, builder_vars, dict_vars>>

\* check_words(words): constructs its own WordFormsDictionary from the file;
\* loads counts the times the call reads word-forms.json and builds the index
CheckWords ==
    /\ ret = NoCall
    /\ IF FileLoads
       THEN \E wordlist \in TokenLists :
               ret' = [op |-> "check_words", words |-> wordlist, raised |-> "no",
                       loads |-> 1,
                       val |-> check_words(wordlist, AllowedWordsOf(json_loads(file[1])))]
       ELSE ret' = [op |-> "check_words", raised |-> "yes", loads |-> 1]
    /\ UNCHANGED <<app_vars, file, action_nouns, builder_vars, dict_vars>>

\* check_words.main(file) on a file that holds text
Main ==
    /\ ret = NoCall
    /\ IF FileLoads
       THEN \E text \in Texts :
               LET wordlist == split_words(text)
                   invalid_words == check_words(wordlist, AllowedWordsOf(json_loads(file[1])))
               IN ret' = [op |-> "main", text |-> text, words |-> wordlist,
                          raised |-> "no", invalid_words |-> invalid_words,
                          loads |-> 1,
                          val |-> IF Len(invalid_words) = 0 THEN 0 ELSE 1]
       ELSE ret' = [op |-> "main", raised |-> "yes", loads |-> 1]
    /\ UNCHANGED <<app_vars, file, action_nouns, builder_vars, dict_vars>>

\* The agent's tool, closed over self._dict
CheckSimpleWords ==
    /\ dpc = "ready" /\ ret = NoCall
    /\ \E text \in Texts, context_length \in Radii :
          ret' = [op |-> "check_simple_words", text |-> text,
                  context_length |-> context_length,
                  val |-> check_simple_words(text, context_length, allowed_words)]
    /\ UNCHANGED <<app_vars, file, action_nouns, builder_vars, dict_vars>>

InitText ==
    /\ InitCommon
    /\ bpc = "off" /\ action_nouns = <<>>
    /\ file \in {Some(json_dump(f, 2)) : f \in TextFiles}

NextText ==
    \/ Load
    \/ AllowedWords
    \/ GetTaggedWord
    \/ GetTokens
    \/ SplitWords
    \/ CheckWords
    \/ Main
    \/ CheckSimpleWords
    \/ NewTaggedWord
    \/ Consume

SpecText == InitText /\ [][NextText]_vars

\* ------------------------------------------------------------------------
\* find_word_forms called on its own
\* ------------------------------------------------------------------------
\* Results of getAllInflections with two supported tags (VBD, VBN) and one
\* that is not supported (NN), in any order
WideInflections ==
    {d \in SeqsOf(({VBD, VBN} \X SeqsOf(Forms, 1, MaxCandidates))
                      \cup {<<NN, <<SAW>>>>}, 0, 3) : IsDict(d)}

FindWordForms ==
    /\ ret = NoCall
    /\ \E word \in {BE, SEE, SAW}, inflections \in WideInflections :
          ret' = [op |-> "find_word_forms", word |-> word,
                  inflections |-> inflections,
                  val |-> find_word_forms(word, inflections, action_nouns)]
    /\ UNCHANGED <<app_vars, file, action_nouns, builder_vars, dict_vars>>

InitForms ==
    /\ InitCommon
    /\ bpc = "off" /\ file = None
    /\ action_nouns \in ActionNounTables

NextForms ==
    \/ FindWordForms
    \/ Consume

SpecForms == InitForms /\ [][NextForms]_vars

\* ------------------------------------------------------------------------
\* Word matches and the highlights of the editor's text area
\* ------------------------------------------------------------------------
\* Characters of the lines that are tried
MatchTexts == SeqsOf({"a", "B", " ", CAPITAL_I_DOT}, 0, MaxTextLen)

FindWordMatches ==
    /\ ret = NoCall
    /\ \E text \in MatchTexts :
          ret' = [op |-> "find_word_matches", text |-> text,
                  val |-> find_word_matches(text)]
    /\ UNCHANGED <<app_vars, file, action_nouns, builder_vars, dict_vars>>

\* SimpleTextArea._build_highlight_map for a document of one line; the text
\* area holds the dictionary it constructed in __init__
BuildHighlightMap ==
    /\ dpc = "ready" /\ ret = NoCall
    /\ \E line_text \in MatchTexts :
          LET m == find_word_matches(line_text)
          IN ret' = [op |-> "_build_highlight_map", line_text |-> line_text,
                     val |-> [k \in DOMAIN m |->
                                [start_col |-> m[k].start, end_col |-> m[k].end,
                                 highlight_name |->
                                     IF lower(m[k].word) \in allowed_words
                                     THEN "allowed_word" ELSE "disallowed_word"]]]
    /\ UNCHANGED <<app_vars, file, action_nouns, builder_vars, dict_vars>>

NextMatches ==
    \/ Load
    \/ FindWordMatches
    \/ BuildHighlightMap
    \/ Consume

SpecMatches == InitText /\ [][NextMatches]_vars

\* ------------------------------------------------------------------------
\* The check command and the script src/check_words.py
\* ------------------------------------------------------------------------
\* re.findall(r"[a-zA-Z']+", text): no flag, the text is not lowered first
RECURSIVE findall(_, _, _, _)
findall(s, k, cur, out) ==
    LET flushed == IF Len(cur) = 0 THEN out ELSE Append(out, cur)
    IN IF k > Len(s) THEN flushed
       ELSE IF s[k] \in Range(AsciiLower) \cup Range(AsciiUpper) \cup {"'"}
            THEN findall(s, k + 1, Append(cur, s[k]), out)
            ELSE findall(s, k + 1, <<>>, flushed)

\* load_word_list: every form of every word, lowered
load_word_list(wf) == {lower(Triples(wf)[k][3]) : k \in DOMAIN Triples(wf)}

\* check_text: the tally of the lowered words that are not allowed
check_text(text, allowed) ==
    LET found == findall(text, 1, <<>>, <<>>)
    IN check_words([k \in DOMAIN found |-> lower(found[k])], allowed)

\* The script's main on an existing text file: load_word_list, then check_text
CheckText ==
    /\ ret = NoCall /\ file # None
    /\ \E text \in Texts, allowed \in {load_word_list(json_loads(file[1]))} :
          LET invalid_words == check_text(text, allowed)
          IN ret' = [op |-> "check_text", text |-> text, allowed |-> allowed,
                     invalid_words |-> invalid_words,
                     val |-> IF Len(invalid_words) = 0 THEN 0 ELSE 1]
    /\ UNCHANGED <<app_vars, file, action_nouns, builder_vars, dict_vars>>

NextCheck ==
    \/ Main
    \/ CheckText
    \/ Consume

SpecCheck == InitText /\ [][NextCheck]_vars

\* ------------------------------------------------------------------------
\* stats.py: FolderGenStats
\* ------------------------------------------------------------------------
\* Files of a sub-folder: *.txt files with a text, and a file that is no *.txt
StatFiles ==
    {[txt |-> TRUE, text |-> t] : t \in {<<"a", " ", "a">>,
                                         <<"a", " ", "a", " ", "b">>}}
        \cup {[txt |-> FALSE, text |-> ZOG]}
\* The folder holds two sub-folders: one with a single file, named *_created
\* or not, and one named *_created with up to MaxFiles files
Folders ==
    {<<[created |-> c, files |-> <<f>>], [created |-> TRUE, files |-> fs]>> :
        c \in BOOLEAN, f \in StatFiles, fs \in SeqsOf(StatFiles, 0, MaxFiles)}

\* folder.glob("*_created"), and fold.glob("*.txt") in each: the texts read
RECURSIVE TextFilesOf(_)
TextFilesOf(gen_folders) ==
    IF Len(gen_folders) = 0 THEN <<>>
    ELSE LET fold == gen_folders[1]
             text_files == SelectSeq(fold.files, LAMBDA f : f.txt)
         IN (IF fold.created THEN [k \in DOMAIN text_files |-> text_files[k].text]
             ELSE <<>>)
            \o TextFilesOf(Tail(gen_folders))

\* Mutant: the words are counted before the file is found invalid
RECURSIVE StatsLoop_early(_, _, _, _)
StatsLoop_early(texts, k, allowed, st) ==
    IF k > Len(texts) THEN st
    ELSE LET wordlist == split_words(texts[k])
             invalid_words == check_words(wordlist, allowed)
         IN StatsLoop_early(texts, k + 1, allowed,
                IF Len(invalid_words) > 0
                THEN [st EXCEPT !.invalid_file_count = @ + 1,
                                !.word_count = @ + Len(wordlist),
                                !.loads = @ + 1]
                ELSE [st EXCEPT !.file_count = @ + 1,
                                !.word_count = @ + Len(wordlist),
                                !.word_set = @ \cup Range(wordlist),
                                !.loads = @ + 1])

\* The loop over the text files, from the k-th on
RECURSIVE StatsLoop(_, _, _, _)
StatsLoop(texts, k, allowed, st) ==
    IF k > Len(texts) THEN st
    ELSE LET wordlist == split_words(texts[k])
             invalid_words == check_words(wordlist, allowed)
         IN StatsLoop(texts, k + 1, allowed,
                IF Len(invalid_words) > 0
                THEN [st EXCEPT !.invalid_file_count = @ + 1, !.loads = @ + 1]
                ELSE [st EXCEPT !.file_count = @ + 1,
                                !.word_count = @ + Len(wordlist),
                                !.word_set = @ \cup Range(wordlist),
                                !.loads = @ + 1])

\* FolderGenStats(folder): the attributes of the new object; check_words
\* raises at the first text file when word-forms.json cannot be loaded
FolderGenStats ==
    /\ ret = NoCall
    /\ \E folder \in Folders,
          allowed \in {IF FileLoads THEN AllowedWordsOf(json_loads(file[1])) ELSE {}} :
          LET texts == TextFilesOf(folder)
          IN IF Len(texts) > 0 /\ ~FileLoads
             THEN ret' = [op |-> "FolderGenStats", folder |-> folder,
                          raised |-> "yes", loads |-> 1]
             ELSE LET st == StatsLoop(texts, 1, allowed,
                                [file_count |-> 0, invalid_file_count |-> 0,
                                 word_count |-> 0, word_set |-> {}, loads |-> 0])
                  IN ret' = [op |-> "FolderGenStats", folder |-> folder,
                             raised |-> "no", loads |-> st.loads,
                             word_count |-> st.word_count,
                             unique_word_count |-> Cardinality(st.word_set),
                             file_count |-> st.file_count,
                             invalid_file_count |-> st.invalid_file_count]
    /\ UNCHANGED <<app_vars, file, action_nouns, builder_vars, dict_vars>>

InitStats ==
    /\ InitCommon
    /\ bpc = "off" /\ action_nouns = <<>>
    /\ file \in {None} \cup {Some(json_dump(f, 2)) : f \in TextFiles}

NextStats ==
    \/ FolderGenStats
    \/ Consume

SpecStats == InitStats /\ [][NextStats]_vars

\* ------------------------------------------------------------------------
\* Text editor: saving the document
\* ------------------------------------------------------------------------
\* The core is not used by the tool that runs
CoreOff ==
    /\ raw_words = <<>> /\ i = 0 /\ words = <<>> /\ all_forms = <<>>
    /\ dpc = "none" /\ word_forms = <<>> /\ allowed_words = {} /\ word_map = <<>>
    /\ bpc = "off" /\ file = None /\ action_nouns = <<>>
    /\ ret = NoCall
core_vars == <<file, action_nouns, builder_vars, dict_vars>>

\* str.strip() for the blank that is tried
RECURSIVE lstrip(_)
lstrip(str) == IF Len(str) > 0 /\ str[1] = " " THEN lstrip(Tail(str)) ELSE str
RECURSIVE rstrip(_)
rstrip(str) ==
    IF Len(str) > 0 /\ str[Len(str)] = " " THEN rstrip(SubSeq(str, 1, Len(str) - 1))
    ELSE str
strip(str) == rstrip(lstrip(str))

\* f"{title}.txt"
TxtName(name) == name \o <<".", "t", "x", "t">>

\* What the user types as title and as document
Titles == {EMPTY, BLANK, <<"t">>, <<"t", " ">>, <<"u">>}
Documents == {EMPTY, <<"a">>, <<"b">>}

TypeTitle ==
    /\ editor \in {"package", "script"} /\ screen = None
    /\ title' \in Titles \ {title}
    /\ ret' = NoCall
    /\ UNCHANGED <<core_vars, ask_vars, query_vars,
                   editor, text_area, disk, screen>>

TypeText ==
    /\ editor \in {"package", "script"} /\ screen = None
    /\ text_area' \in Documents \ {text_area}
    /\ ret' = NoCall
    /\ UNCHANGED <<core_vars, ask_vars, query_vars,
                   editor, title, disk, screen>>

\* save_file_confirmed(overwrite) of the save that made output_file; the
\* write either succeeds or raises, and the exception is caught
save_file_confirmed(op, output_file, overwrite) ==
    IF ~overwrite
    THEN /\ disk' = disk
         /\ ret' = [op |-> op, notify |-> "Save cancelled."]
    ELSE \/ /\ disk' = Put(disk, output_file, text_area)
            /\ ret' = [op |-> op, notify |-> "Saved to"]
         \/ /\ disk' = disk
            /\ ret' = [op |-> op, notify |-> "Error saving file"]

\* SimpleTextEditor.action_save, bound to ctrl+s while no modal is on top
action_save ==
    /\ editor \in {"package", "script"} /\ screen = None
    /\ LET output_file == TxtName(strip(title))
       IN IF strip(title) = EMPTY
          THEN /\ ret' = [op |-> "action_save", notify |-> "Please enter a file title."]
               /\ UNCHANGED <<disk, screen>>
          ELSE IF Has(disk, output_file)
          THEN /\ screen' = Some(output_file)
               /\ ret' = [op |-> "action_save", notify |-> "none"]
               /\ UNCHANGED disk
          ELSE IF editor = "package"
          THEN /\ save_file_confirmed("action_save", output_file, TRUE)
               /\ UNCHANGED screen
          ELSE /\ ret' = [op |-> "action_save", notify |-> "none"]
               /\ UNCHANGED <<disk, screen>>
    /\ UNCHANGED <<core_vars, ask_vars, query_vars,
                   editor, title, text_area>>

\* ConfirmSave.dismiss(result): the Yes button and ctrl+s give True, the No
\* button and escape give False; the callback of push_screen runs
Dismiss ==
    /\ screen # None
    /\ \E result \in BOOLEAN : save_file_confirmed("dismiss", screen[1], result)
    /\ screen' = None
    /\ UNCHANGED <<core_vars, ask_vars, query_vars,
                   editor, title, text_area>>

InitEditor ==
    /\ CoreOff /\ AskOff /\ QueryOff
    /\ editor \in {"package", "script"}
    /\ title = EMPTY /\ text_area = EMPTY /\ screen = None
    /\ disk \in {<<>>, <<<<TxtName(<<"t">>), <<"a">>>>>>}

NextEditor ==
    \/ TypeTitle
    \/ TypeText
    \/ action_save
    \/ Dismiss

SpecEditor == InitEditor /\ [][NextEditor]_vars

\* ------------------------------------------------------------------------
\* ask_questions.py: one agent subprocess per question without an answer
\* ------------------------------------------------------------------------
\* Lines of the input file: a question, or a line that strips to nothing
QuestionLines == {<<"q">>, BLANK}

\* main up to the loop: a new process scans the answers that exist
AskStart ==
    /\ apc \in {"idle", "done"}
    /\ prev_run' = IF apc = "idle" THEN None
                   ELSE Some([invoked |-> invoked, failures |-> failures])
    /\ invoked' = <<>> /\ failures' = {} /\ idx' = 0
    /\ IF questions = None
       THEN apc' = "done" /\ UNCHANGED existing_answers
       ELSE apc' = "loop" /\ existing_answers' = answers
    /\ UNCHANGED <<core_vars, editor_vars, query_vars, ret, questions, answers>>

\* Mutant: the answers that exist are not looked at
AskLine_all ==
    /\ apc = "loop" /\ idx < Len(questions[1])
    /\ idx' = idx + 1
    /\ IF strip(questions[1][idx + 1]) = EMPTY
       THEN UNCHANGED <<invoked, answers, failures>>
       ELSE /\ invoked' = Append(invoked, idx)
            /\ \/ answers' = answers \cup {idx} /\ UNCHANGED failures
               \/ failures' = failures \cup {idx} /\ UNCHANGED answers
    /\ UNCHANGED <<core_vars, editor_vars, query_vars, ret, questions, apc,
                   existing_answers, prev_run>>

\* One turn of `for idx, question in enumerate(infile)`; the agent either
\* writes answer_<idx>.txt and exits with 0, or exits with an error
AskLine ==
    /\ apc = "loop" /\ idx < Len(questions[1])
    /\ idx' = idx + 1
    /\ IF strip(questions[1][idx + 1]) = EMPTY \/ idx \in existing_answers
       THEN UNCHANGED <<invoked, answers, failures>>
       ELSE /\ invoked' = Append(invoked, idx)
            /\ \/ answers' = answers \cup {idx} /\ UNCHANGED failures
               \/ failures' = failures \cup {idx} /\ UNCHANGED answers
    /\ UNCHANGED <<core_vars, editor_vars, query_vars, ret, questions, apc,
                   existing_answers, prev_run>>

\* The file is at its end and main returns
AskEnd ==
    /\ apc = "loop" /\ idx = Len(questions[1])
    /\ apc' = "done"
    /\ UNCHANGED <<core_vars, editor_vars, query_vars, ret, questions, answers,
                   existing_answers, idx, invoked, failures, prev_run>>

InitAsk ==
    /\ CoreOff /\ EditorOff /\ QueryOff
    /\ apc = "idle"
    /\ questions \in {None} \cup {Some(q) : q \in SeqsOf(QuestionLines, 0, MaxLines)}
    /\ answers \in SUBSET (0..(MaxLines - 1))
    /\ existing_answers = {} /\ idx = 0 /\ invoked = <<>> /\ failures = {}
    /\ prev_run = None

NextAsk ==
    \/ AskStart
    \/ AskLine
    \/ AskEnd

SpecAsk == InitAsk /\ [][NextAsk]_vars

\* ------------------------------------------------------------------------
\* query.py: Query
\* ------------------------------------------------------------------------
\* A dict of query arguments holds its scalars and the address of its list of
\* messages in the heap; reasoning_effort is None when the key is absent
Models == {<<"gpt-4.1-nano">>, <<"gpt-5-mini">>}
Things == {<<"a">>, <<"b">>}
\* The developer message; its content is the text make_prompt returns
Developer == [role |-> "developer", content |-> <<"prompt">>]
User(message) == [role |-> "user", content |-> message]

\* "gpt-5" in model
HasGpt5(model) ==
    \E k \in DOMAIN model :
        \E p \in 1..(Len(model[k]) - 4) : SubSeq(model[k], p, p + 4) = "gpt-5"

explain(thing) == <<"Please explain what the word '">> \o thing \o <<"' means.">>
explain_and_fact(thing) ==
    <<"Please explain what the word '">> \o thing
        \o <<"' means and in a new paragraph provide a fact about it.">>
QueryOps == {"__call__", "ask_explain", "ask_explain_and_fact"}
MessageOf(op, arg) ==
    IF op = "ask_explain" THEN explain(arg)
    ELSE IF op = "ask_explain_and_fact" THEN explain_and_fact(arg)
    ELSE arg

QueryInit ==
    /\ query_args = None
    /\ \E model \in Models :
          /\ heap' = Append(heap, <<Developer>>)
          /\ query_args' = Some([model |-> model, prompt_cache_key |-> <<"tinyfacts_cache">>,
                                 messages |-> Len(heap) + 1,
                                 reasoning_effort |->
                                     IF HasGpt5(model) THEN Some("minimal") ELSE None])
    /\ UNCHANGED <<core_vars, editor_vars, ask_vars, ret, requests>>

\* Mutant: copy.copy instead of deepcopy, the list of messages is shared
QueryCall_shallow ==
    /\ query_args # None /\ ret = NoCall /\ Len(requests) < MaxRequests
    /\ \E op \in QueryOps, arg \in Things :
          LET message == MessageOf(op, arg)
              _args == query_args[1]
          IN /\ heap' = [heap EXCEPT ![_args.messages] = Append(@, User(message))]
             /\ requests' = Append(requests, _args)
             /\ ret' = [op |-> op, message |-> message, val |-> _args]
    /\ UNCHANGED <<core_vars, editor_vars, ask_vars, query_args>>

\* Query.__call__, directly or through ask_explain / ask_explain_and_fact:
\* deepcopy gives the copy its own list of messages, the user message goes there
QueryCall ==
    /\ query_args # None /\ ret = NoCall /\ Len(requests) < MaxRequests
    /\ \E op \in QueryOps, arg \in Things :
          LET message == MessageOf(op, arg)
              _args == [query_args[1] EXCEPT !.messages = Len(heap) + 1]
          IN /\ heap' = Append(heap, Append(heap[query_args[1].messages], User(message)))
             /\ requests' = Append(requests, _args)
             /\ ret' = [op |-> op, message |-> message, val |-> _args]
    /\ UNCHANGED <<core_vars, editor_vars, ask_vars, query_args>>

\* The caller changes a request it was given: one more message, or none left
MutateRequest ==
    /\ \E k \in DOMAIN requests :
          LET a == requests[k].messages
          IN \/ /\ Len(heap[a]) = 2
                /\ heap' = [heap EXCEPT ![a] = Append(@, User(<<"more">>))]
             \/ /\ Len(heap[a]) > 0
                /\ heap' = [heap EXCEPT ![a] = <<>>]
    /\ UNCHANGED <<core_vars, editor_vars, ask_vars, ret, query_args, requests>>

InitQuery == CoreOff /\ EditorOff /\ AskOff /\ QueryOff

NextQuery ==
    \/ QueryInit
    \/ QueryCall
    \/ MutateRequest
    \/ Consume

SpecQuery == InitQuery /\ [][NextQuery]_vars

\* ------------------------------------------------------------------------
\* Properties
\* ------------------------------------------------------------------------
Tagged(tword) == Len(tword.tag) > 0
Count(x, s) == Cardinality({k \in DOMAIN s : s[k] = x})

\* C1: after a build and a load, get_tagged_word(w) of every base word w (every
\* key of the loaded mapping) is the TaggedWord with base w and no tag.
C1_BaseWordLookup ==
    (bpc = "done" /\ dpc = "ready" /\ ret.op = "get_tagged_word"
        /\ ret.word \in Keys(word_forms))
    => ret.val = Some(TaggedWord(ret.word, None))

\* C2: after load, allowed_words is exactly the set of surface strings of the
\* loaded mapping: every form of every entry is in it and nothing else is.
C2_AllowedWordsExact ==
    dpc = "ready" =>
        /\ \A e \in DOMAIN word_forms : \A t \in DOMAIN word_forms[e][2] :
              word_forms[e][2][t][2] \in allowed_words
        /\ \A s \in allowed_words :
              \E e \in DOMAIN word_forms : \E t \in DOMAIN word_forms[e][2] :
                 word_forms[e][2][t][2] = s

\* A dictionary is loaded that has an inflected form which is no base word
C2_Witness ==
    /\ dpc = "ready"
    /\ \E s \in allowed_words : s \notin Keys(word_forms)
    /\ Cardinality(allowed_words) >= 2

\* The allowed words of the dictionary that check_words constructs
FileAllowed ==
    LET wf == json_loads(file[1])
    IN UNION {{wf[e][2][t][2] : t \in DOMAIN wf[e][2]} : e \in DOMAIN wf}

\* C3: check_words(split_words(text)) is the empty mapping if and only if every
\* token of split_words(text) is an allowed word.
C3_EmptyIffAllAllowed ==
    (ret.op = "main" /\ ret.raised = "no") =>
        /\ ret.words = split_words(ret.text)
        /\ (Len(ret.invalid_words) = 0
            <=> \A k \in DOMAIN ret.words : ret.words[k] \in FileAllowed)

\* A text of several tokens, all allowed, has been checked
C3_Witness ==
    /\ ret.op = "main" /\ ret.raised = "no"
    /\ Len(ret.words) >= 2
    /\ Len(ret.invalid_words) = 0

\* C4: check_words goes through the whole list; the keys of the tally are
\* exactly the distinct words that are not allowed, each with the number of
\* its occurrences in the list, and no allowed word is a key.
C4_TallyComplete ==
    (ret.op = "check_words" /\ ret.raised = "no") =>
        /\ IsDict(ret.val)
        /\ Keys(ret.val) = {ret.words[k] : k \in DOMAIN ret.words} \ FileAllowed
        /\ \A k \in DOMAIN ret.val : ret.val[k][2] = Count(ret.val[k][1], ret.words)

\* [zog, zog, zog]: an unknown word three times gives a tally of 3 for it
C4_Witness ==
    /\ ret.op = "check_words" /\ ret.raised = "no"
    /\ ret.words = <<ZOG, ZOG, ZOG>>
    /\ ret.val = <<<<ZOG, 3>>>>

\* The tokens the specification describes: maximal runs of ASCII letters and
\* apostrophes of the text, each lowercased
AsciiWordChar(c) == c \in Range(AsciiLower) \cup Range(AsciiUpper) \cup {"'"}
IsRun(text, a, b) ==
    /\ a <= b
    /\ \A k \in a..b : AsciiWordChar(text[k])
    /\ (a = 1 \/ ~AsciiWordChar(text[a - 1]))
    /\ (b = Len(text) \/ ~AsciiWordChar(text[b + 1]))
RunStarts(text) == {a \in DOMAIN text : \E b \in DOMAIN text : IsRun(text, a, b)}
RunFrom(text, a) == SubSeq(text, a, CHOOSE b \in DOMAIN text : IsRun(text, a, b))
RECURSIVE RunsAfter(_, _)
RunsAfter(text, a) ==
    LET later == {x \in RunStarts(text) : x > a}
    IN IF later = {} THEN <<>>
       ELSE LET nxt == CHOOSE x \in later : \A y \in later : x <= y
            IN <<lower(RunFrom(text, nxt))>> \o RunsAfter(text, nxt)
SpecTokens(text) == RunsAfter(text, 0)

\* C5: split_words(text) is, in order and with duplicates, the maximal runs of
\* letters and apostrophes of the text, lowercased; any other character only
\* separates tokens.
C5_TokensAreLetterRuns ==
    ret.op = "split_words" => ret.val = SpecTokens(ret.text)

\* The context the specification describes for position pos (0-based)
SpecContext(wordlist, pos, r) ==
    LET lo == Max(0, pos - r)
        hi == Min(Len(wordlist) - 1, pos + r)
    IN join([j \in 1..(hi - lo + 1) |-> wordlist[lo + j]])

\* C6: check_simple_words(text, r) has one record for each position of
\* split_words(text) whose token is not allowed and for no other position; the
\* record holds the token, its 0-based index and the tokens of the window
\* max(0, i-r) .. min(n-1, i+r) joined by single spaces.
C6_ContextRecords ==
    ret.op = "check_simple_words" =>
        LET wordlist == split_words(ret.text)
            bad == {pos \in 0..(Len(wordlist) - 1) : wordlist[pos + 1] \notin allowed_words}
        IN /\ {ret.val[k].index : k \in DOMAIN ret.val} = bad
           /\ Len(ret.val) = Cardinality(bad)
           /\ \A k \in DOMAIN ret.val :
                 /\ ret.val[k].word = wordlist[ret.val[k].index + 1]
                 /\ ret.val[k].context
                       = SpecContext(wordlist, ret.val[k].index, ret.context_length)

\* The second of two tokens is invalid and the window of one token on each
\* side takes in the first token and is cut off at the end of the list
C6_Witness ==
    /\ ret.op = "check_simple_words"
    /\ ret.context_length = 1
    /\ Len(split_words(ret.text)) = 2
    /\ \E k \in DOMAIN ret.val :
          ret.val[k].index = 1 /\ Len(ret.val[k].context) > Len(ret.val[k].word)

\* C7: every entry made by find_word_forms(word) has "base" mapped to word, and
\* every other key, ANN included, is mapped to a string different from word.
C7_FormsDifferFromBase ==
    \A e \in DOMAIN words :
        LET word == words[e][1]
            entry == words[e][2]
        IN /\ Has(entry, kBase) /\ Get(entry, kBase) = word
           /\ \A t \in DOMAIN entry : entry[t][1] # kBase => entry[t][2] # word

\* C8: for a surface form of the loaded dictionary that has tag t and base b,
\* get_tokens returns ['<t>', b]; for one without a tag it returns [base].
\* Stated for the dictionaries that the builder has written.
C8_TokensOfRecognised ==
    (bpc = "done" /\ dpc = "ready" /\ ret.op = "get_tokens" /\ Has(word_map, ret.word)) =>
        LET tword == Get(word_map, ret.word)
        IN IF Tagged(tword) /\ tword.tag[1] \in SUPPORTED_TAGS
           THEN ret.val = Some(<<Marker(tword.tag[1]), tword.base>>)
           ELSE Tagged(tword) \/ ret.val = Some(<<tword.base>>)

\* C9: get_tokens(s) is ['<UNK>'] if and only if s is no surface form of any
\* entry; whenever get_tagged_word(s) is not None the result is not ['<UNK>'].
\* Stated for the dictionaries that the builder has written.
C9_UnknownIffUnrecognised ==
    (bpc = "done" /\ dpc = "ready" /\ ret.op = "get_tokens") =>
        /\ (ret.val = Some(<<UNK>>) <=> ret.word \notin allowed_words)
        /\ (get_tagged_word(ret.word) # None => ret.val # Some(<<UNK>>))

\* C10: a dictionary is never constructed from a mapping in which some entry has
\* a key that is neither "base" nor one of the ten tag codes, and no index of a
\* constructed dictionary holds such a tag.
C10_BadKeyFailsLoad ==
    dpc = "ready" =>
        /\ \A e \in DOMAIN word_forms : \A t \in DOMAIN word_forms[e][2] :
              word_forms[e][2][t][1] \in SUPPORTED_TAGS \cup {kBase}
        /\ \A f \in DOMAIN word_map :
              Tagged(word_map[f][2]) => word_map[f][2].tag[1] \in SUPPORTED_TAGS

\* C11: constructing a TaggedWord succeeds exactly when the tag is None or one
\* of the ten supported tags; any other tag value, the empty string and 'base'
\* included, raises the validation error.
C11_TagValidated ==
    ret.op = "TaggedWord" =>
        (ret.raised = "no" <=> (ret.tag = None \/ ret.tag[1] \in SUPPORTED_TAGS))

\* (entry, tag) positions of the loaded mapping whose surface string is s
SharedBy(s) ==
    {p \in (DOMAIN word_forms)
            \X (UNION {DOMAIN word_forms[e][2] : e \in DOMAIN word_forms}) :
        p[2] \in DOMAIN word_forms[p[1]][2] /\ word_forms[p[1]][2][p[2]][2] = s}

\* C12: when several (base, tag, form) triples share a surface string,
\* get_tagged_word of that string returns the base and tag of the triple that
\* is last in file order (entries in file order, tags in file order within an
\* entry), and loading raised no error.
C12_LastTripleWins ==
    (dpc = "ready" /\ ret.op = "get_tagged_word" /\ SharedBy(ret.word) # {}) =>
        LET last == CHOOSE p \in SharedBy(ret.word) :
                        \A q \in SharedBy(ret.word) :
                            q[1] < p[1] \/ (q[1] = p[1] /\ q[2] <= p[2])
            base == word_forms[last[1]][1]
            key == word_forms[last[1]][2][last[2]][1]
        IN ret.val = Some([base |-> base,
                           tag |-> IF key = kBase THEN None ELSE Some(key)])

C12_Witness ==
    /\ dpc = "ready" /\ ret.op = "get_tagged_word"
    /\ \E p, q \in SharedBy(ret.word) : p[1] < q[1]

\* Two base -> tag -> form mappings hold the same bases, tags and forms
SameMapping(a, b) ==
    /\ IsDict(a) /\ IsDict(b) /\ Keys(a) = Keys(b)
    /\ \A base \in Keys(a) :
          /\ IsDict(Get(a, base)) /\ IsDict(Get(b, base))
          /\ Keys(Get(a, base)) = Keys(Get(b, base))
          /\ \A tag \in Keys(Get(a, base)) :
                Get(Get(a, base), tag) = Get(Get(b, base), tag)

\* C13: loading the file that the builder wrote succeeds and gives, for each
\* base word the builder kept, exactly the tags it recorded with their surface
\* strings: nothing is dropped, added or changed between
\* WordFormsExtractor.words and the loaded mapping.
C13_BuildLoadRoundTrip ==
    /\ (bpc = "done" /\ dpc = "ready") => SameMapping(words, word_forms)
    /\ (bpc = "done" /\ ret.op = "load") => ret.raised # "ValueError"

C13_Witness ==
    /\ bpc = "done" /\ dpc = "ready" /\ ret.op = "load"
    /\ Len(word_forms) = 2
    /\ \E e \in DOMAIN word_forms : Len(word_forms[e][2]) = 3

\* C14: get_tagged_word raises for no input; it returns None exactly when the
\* string is not a surface form of any loaded entry, and otherwise the
\* TaggedWord stored for that string.
C14_NoneIffNotSurfaceForm ==
    (dpc = "ready" /\ ret.op = "get_tagged_word") =>
        /\ ret.val = None <=>
              ~\E e \in DOMAIN word_forms : \E t \in DOMAIN word_forms[e][2] :
                  word_forms[e][2][t][2] = ret.word
        /\ ret.val # None =>
              \E k \in DOMAIN word_map : word_map[k] = <<ret.word, ret.val[1]>>

C14_Witness ==
    /\ dpc = "ready" /\ ret.op = "get_tagged_word"
    /\ ret.word \notin allowed_words /\ ret.val = None
    /\ Cardinality(allowed_words) >= 2

\* C15: find_word_forms records an inflection tag only if it is one of the
\* supported inflection tags, records for it exactly the first candidate of
\* the collaborator's list, and only if that candidate differs from the word;
\* unsupported tags never appear and a tag has one surface string.
C15_FirstCandidateOfSupportedTag ==
    ret.op = "find_word_forms" =>
        /\ IsDict(ret.val)
        /\ \A k \in DOMAIN ret.val :
              LET tag == ret.val[k][1]
              IN tag \notin {kBase, ANN} =>
                    /\ tag \in SUPPORTED_INFLECTIONS
                    /\ \E j \in DOMAIN ret.inflections :
                          /\ ret.inflections[j][1] = tag
                          /\ ret.val[k][2] = ret.inflections[j][2][1]
                    /\ ret.val[k][2] # ret.word

C15_Witness ==
    /\ ret.op = "find_word_forms"
    /\ \E k \in DOMAIN ret.val, j \in DOMAIN ret.inflections :
          /\ ret.val[k][1] = VBD /\ ret.inflections[j][1] = VBD
          /\ Len(ret.inflections[j][2]) = 2
          /\ ret.inflections[j][2][2] # ret.inflections[j][2][1]
    /\ \E j \in DOMAIN ret.inflections :
          ret.inflections[j][1] = VBN /\ ret.inflections[j][2][1] = ret.word
    /\ \E j \in DOMAIN ret.inflections : ret.inflections[j][1] = NN

\* C16: the result of find_word_forms has the tag ANN if and only if the word
\* is a key of the action-noun table with a non-empty value, and ANN then maps
\* to exactly that value.
C16_ActionNounIffTableValue ==
    ret.op = "find_word_forms" =>
        LET listed == \E k \in DOMAIN action_nouns :
                          action_nouns[k][1] = ret.word /\ action_nouns[k][2] # EMPTY
            marked == \E k \in DOMAIN ret.val : ret.val[k][1] = ANN
        IN /\ marked <=> listed
           /\ \A k \in DOMAIN ret.val : ret.val[k][1] = ANN =>
                 \E j \in DOMAIN action_nouns :
                     action_nouns[j] = <<ret.word, ret.val[k][2]>>

C16_Witness ==
    /\ ret.op = "find_word_forms"
    /\ \E k \in DOMAIN ret.val : ret.val[k] = <<ANN, SAW>>
    /\ Len(ret.val) >= 3

\* The strings handed to the extractor so far, in call order
Fed == IF bpc \in {"loop", "done"} THEN <<BE>> \o SubSeq(raw_words, 1, i) ELSE <<>>
FirstOccurrence(word) == CHOOSE k \in DOMAIN Fed :
                            Fed[k] = word /\ \A j \in 1..(k - 1) : Fed[j] # word

\* C17 as stated: a base string fed more than once has one entry in the output.
C17_OneEntryForRepeatedWord ==
    bpc = "done" =>
        \A word \in {Fed[k] : k \in DOMAIN Fed} :
            (~IsBlank(word) /\ Count(word, Fed) >= 2) =>
                Cardinality({e \in DOMAIN words : words[e][1] = word}) = 1

\* C17, amended: a call with a string that was fed before leaves words and
\* _all_forms unchanged, so the output has at most one entry per base word,
\* and the entries stand in the order of the first occurrences of their words
\* (a word whose first occurrence was itself skipped has no entry).
C17_RepeatKeepsFirst ==
    /\ [][(bpc = "loop" /\ i < Len(raw_words) /\ i' = i + 1
             /\ InSeq(raw_words[i + 1], Fed))
           => (words' = words /\ all_forms' = all_forms)]_vars
    /\ [](/\ IsDict(words)
          /\ \A e \in DOMAIN words : InSeq(words[e][1], Fed)
          /\ \A e1, e2 \in DOMAIN words :
                e1 < e2 => FirstOccurrence(words[e1][1]) < FirstOccurrence(words[e2][1]))

C17_Witness ==
    /\ bpc = "done" /\ Len(raw_words) = 2
    /\ raw_words[1] = raw_words[2] /\ raw_words[1] # BE
    /\ Len(words) = 2 /\ words[2][1] = raw_words[1]

\* C18 as stated: a later word is skipped when one of its candidate surface
\* forms, base or inflected, equals a form already emitted for an earlier
\* word; so no entry holds a surface form that an earlier entry holds.
C18_SkippedOnAnyEmittedForm ==
    \A e1, e2 \in DOMAIN words :
        e1 < e2 =>
            \A t1 \in DOMAIN words[e1][2], t2 \in DOMAIN words[e2][2] :
                words[e1][2][t1][2] # words[e2][2][t2][2]

\* C18, amended: a later word is skipped (gets no entry) if its own base
\* string equals a surface form already emitted for an earlier word; its
\* inflected candidates are not compared, so a word that is not blank and
\* whose base string was not emitted gets its entry whatever its inflections.
C18_SkippedOnEmittedBase ==
    [][(bpc = "loop" /\ i < Len(raw_words) /\ i' = i + 1) =>
          IF \E k \in DOMAIN all_forms : all_forms[k] = raw_words[i + 1]
          THEN words' = words /\ all_forms' = all_forms
          ELSE IsBlank(raw_words[i + 1])
               \/ (Len(words') = Len(words) + 1
                   /\ words'[Len(words')][1] = raw_words[i + 1])]_vars

C18_Witness ==
    /\ bpc = "done" /\ raw_words = <<SAW, SEE>>
    /\ Keys(words) = {BE, SEE}
    /\ \E t \in DOMAIN words[2][2] : words[2][2][t] = <<VBD, SAW>>

\* C19: 'be' is processed before any vocabulary word: whatever the vocabulary,
\* 'be' is the first key of the collected and of the written mapping and has
\* one entry; a later 'be', or another form emitted for 'be', in the
\* vocabulary adds no entry, and no later call changes the first entry.
C19_BeFirst ==
    /\ [](bpc \in {"loop", "done"} =>
            /\ Len(words) >= 1 /\ words[1][1] = BE
            /\ Cardinality({e \in DOMAIN words : words[e][1] = BE}) = 1)
    /\ [](bpc = "done" => file[1][2] = JString(BE))
    /\ [][(bpc = "loop" /\ Len(words) >= 1) =>
            /\ Len(words') >= 1 /\ words'[1] = words[1]
            /\ (i' = i + 1 /\ \E t \in DOMAIN words[1][2] :
                                 words[1][2][t][2] = raw_words[i + 1])
                  => words' = words]_vars

C19_Witness ==
    /\ bpc = "done" /\ raw_words = <<SEE, BE>>
    /\ Len(words) = 2 /\ words[1][1] = BE /\ words[2][1] = SEE
    /\ file[1][2] = JString(BE)

\* C20: once a WordFormsDictionary is constructed, no call of allowed_words,
\* get_tagged_word, get_tokens, check_words or check_simple_words changes its
\* loaded mapping, its allowed-word set or its surface-form index.
C20_QueriesLeaveDictionary ==
    [][dpc = "ready" =>
          /\ dpc' = "ready"
          /\ word_forms' = word_forms
          /\ allowed_words' = allowed_words
          /\ word_map' = word_map]_vars

C20_Witness ==
    /\ dpc = "ready" /\ ret.op = "check_simple_words" /\ Len(ret.val) >= 1
    /\ word_forms = json_loads(file[1])
    /\ allowed_words = FileAllowed
    /\ {word_map[k][1] : k \in DOMAIN word_map} = FileAllowed

\* C21: word-forms.json is read by the one-time load step only: a classify
\* call (check_words, also as called by main) reads no file and builds no
\* index.
C21_ClassifyReadsNothing ==
    ret.op \in {"check_words", "main"} => ret.loads = 0

\* C22: on a text without tokens check_simple_words returns no record, for
\* every radius; with radius 0 the context of every record is the invalid
\* token itself.
C22_ContextBoundaries ==
    ret.op = "check_simple_words" =>
        /\ Len(split_words(ret.text)) = 0 => ret.val = <<>>
        /\ ret.context_length = 0 =>
              \A k \in DOMAIN ret.val : ret.val[k].context = ret.val[k].word

C22_Witness ==
    /\ ret.op = "check_simple_words" /\ ret.context_length = 0
    /\ Len(split_words(ret.text)) = 2 /\ Len(ret.val) = 1
    /\ ret.val[1].context = ret.val[1].word

C24_SaveWritesTarget ==
    [][/\ ret'.op = "action_save" =>
             IF strip(title) = EMPTY THEN disk' = disk /\ screen' = None
             ELSE IF \E k \in DOMAIN disk : disk[k][1] = TxtName(strip(title))
             THEN disk' = disk
             ELSE ret'.notify = "Error saving file"
                  \/ \E k \in DOMAIN disk' :
                        disk'[k] = <<TxtName(strip(title)), text_area>>
       /\ ret'.op = "dismiss" =>
             IF ret'.notify = "Saved to"
             THEN \E k \in DOMAIN disk' : disk'[k] = <<screen[1], text_area>>
             ELSE disk' = disk]_vars

\* C25: in a run of ask_questions the agent is invoked at most once for a
\* line, and only for a line that is not blank and whose answer_<idx>.txt was
\* not there when the run started; a failed subprocess does not stop the
\* later questions; a run after a run without failure invokes the agent for
\* no question.
C25_SkipsAnswered ==
    apc \in {"loop", "done"} =>
        /\ \A j, k \in DOMAIN invoked : j < k => invoked[j] < invoked[k]
        /\ \A k \in DOMAIN invoked :
              /\ invoked[k] < idx
              /\ strip(questions[1][invoked[k] + 1]) # EMPTY
              /\ invoked[k] \notin existing_answers
        /\ \A line \in 0..(idx - 1) :
              (strip(questions[1][line + 1]) # EMPTY /\ line \notin existing_answers)
                 => \E k \in DOMAIN invoked : invoked[k] = line
        /\ (prev_run # None /\ prev_run[1].failures = {}) => invoked = <<>>

C25_Witness ==
    /\ apc = "done" /\ invoked = <<>>
    /\ prev_run = Some([invoked |-> <<0, 2>>, failures |-> {}])
    /\ questions = Some(<<<<"q">>, BLANK, <<"q">>>>)
    /\ answers = {0, 2}

\* Tokens of the file at place <<sub-folder, file>> of a folder
TokensAt(folder, place) == split_words(folder[place[1]].files[place[2]].text)
RECURSIVE WordTotal(_, _)
WordTotal(folder, places) ==
    IF places = {} THEN 0
    ELSE LET place == CHOOSE pl \in places : TRUE
         IN Len(TokensAt(folder, place)) + WordTotal(folder, places \ {place})

\* C26: over the *.txt files of the *_created sub-folders, file_count is the
\* number of files whose tokens are all allowed and invalid_file_count the
\* number of the others, so that they sum to the number of files scanned;
\* word_count is the number of tokens of the valid files only and
\* unique_word_count the number of their distinct tokens, all of them allowed.
C26_StatsOfValidFiles ==
    (ret.op = "FolderGenStats" /\ ret.raised = "no") =>
        LET allowed == FileAllowed
            scanned == {place \in (DOMAIN ret.folder) \X (1..MaxFiles) :
                           /\ ret.folder[place[1]].created
                           /\ place[2] \in DOMAIN ret.folder[place[1]].files
                           /\ ret.folder[place[1]].files[place[2]].txt}
            valid == {place \in scanned :
                         \A k \in DOMAIN TokensAt(ret.folder, place) :
                             TokensAt(ret.folder, place)[k] \in allowed}
            distinct == UNION {{TokensAt(ret.folder, place)[k] :
                                   k \in DOMAIN TokensAt(ret.folder, place)} :
                               place \in valid}
        IN /\ ret.file_count = Cardinality(valid)
           /\ ret.invalid_file_count = Cardinality(scanned \ valid)
           /\ ret.file_count + ret.invalid_file_count = Cardinality(scanned)
           /\ ret.word_count = WordTotal(ret.folder, valid)
           /\ ret.unique_word_count = Cardinality(distinct)
           /\ \A w \in distinct : w \in allowed

C26_Witness ==
    /\ ret.op = "FolderGenStats" /\ ret.raised = "no"
    /\ ret.file_count = 2 /\ ret.invalid_file_count = 1
    /\ ret.word_count = 4 /\ ret.unique_word_count = 1

\* C27: for every text, the words of the records of check_simple_words, with
\* their multiplicities, are the tally of check_words(split_words(text)): the
\* same invalid words, each as often; and the records come in strictly
\* increasing index order.
C27_ClassifiersAgree ==
    ret.op = "check_simple_words" =>
        LET tally == check_words(split_words(ret.text), FileAllowed)
        IN /\ {ret.val[k].word : k \in DOMAIN ret.val} = {tally[k][1] : k \in DOMAIN tally}
           /\ \A k \in DOMAIN tally :
                 Cardinality({r \in DOMAIN ret.val : ret.val[r].word = tally[k][1]})
                    = tally[k][2]
           /\ \A r1, r2 \in DOMAIN ret.val :
                 r1 < r2 => ret.val[r1].index < ret.val[r2].index

C27_Witness ==
    /\ ret.op = "check_simple_words"
    /\ Len(ret.val) = 2 /\ ret.val[1].word = ret.val[2].word
    /\ Len(split_words(ret.text)) = 2

\* C28: the words of find_word_matches(text), in order, are split_words(text);
\* the spans are not empty, do not overlap and increase strictly; the text
\* between start_index and end_index, lowercased, is the returned word, so
\* that the columns the editor highlights hold exactly the tokens that the
\* classifier checks.
C28_MatchesAreTokens ==
    LET \* text[start:end] as Python cuts it
        Cut(text, start, end) ==
            SubSeq(text, Min(start, Len(text)) + 1, Min(end, Len(text)))
    IN
    /\ ret.op = "find_word_matches" =>
          /\ [k \in DOMAIN ret.val |-> ret.val[k].word] = split_words(ret.text)
          /\ \A k \in DOMAIN ret.val :
                /\ 0 <= ret.val[k].start /\ ret.val[k].start < ret.val[k].end
                /\ k > 1 => ret.val[k - 1].end <= ret.val[k].start
                /\ lower(Cut(ret.text, ret.val[k].start, ret.val[k].end))
                      = ret.val[k].word
    /\ ret.op = "_build_highlight_map" =>
          [k \in DOMAIN ret.val |->
              lower(Cut(ret.line_text, ret.val[k].start_col, ret.val[k].end_col))]
            = split_words(ret.line_text)

\* C30: main(file) returns 0 if and only if check_words(split_words(text)) is
\* empty and 1 otherwise, and check_text of the script gives the same tally
\* for the same text and the same set of allowed words.
C30_MainAndScriptAgree ==
    /\ (ret.op = "main" /\ ret.raised = "no") =>
          /\ ret.val \in {0, 1}
          /\ ret.val = 0 <=>
                check_words(split_words(ret.text),
                            AllowedWordsOf(json_loads(file[1]))) = <<>>
    /\ ret.op = "check_text" =>
          Range(ret.invalid_words)
            = Range(check_words(split_words(ret.text), ret.allowed))

\* C29: through every sequence of __call__, ask_explain and
\* ask_explain_and_fact the arguments the Query stores stay as constructed,
\* its list of messages holding the developer prompt only, and every request
\* returned holds exactly the developer prompt and then the user message of
\* that call, whatever was asked before and whatever callers did to the
\* requests they were given.
C29_QueryKeepsItsArguments ==
    [][ /\ query_args' # None => heap'[query_args'[1].messages] = <<Developer>>
        /\ query_args # None => query_args' = query_args
        /\ (ret = NoCall /\ ret'.op \in QueryOps) =>
              /\ heap'[ret'.val.messages] = <<Developer, User(ret'.message)>>
              /\ ret'.val.messages # query_args[1].messages
              /\ [ret'.val EXCEPT !.messages = 0] = [query_args[1] EXCEPT !.messages = 0]
      ]_vars
\* The second request is returned after the first was changed by its caller
C29_Witness ==
    /\ ret.op \in QueryOps /\ Len(requests) = 2
    /\ ret.val = requests[2]
    /\ heap[requests[1].messages] = <<>>
    /\ heap[requests[2].messages] = <<Developer, User(ret.message)>>
    /\ heap[query_args[1].messages] = <<Developer>>

====
